---- MODULE Spec2Model ----
(***************************************************************************)
(* Stream lifecycle supervisor (FFmpegManager) of thabir-camera-detection  *)
(* as a state machine.                                                     *)
(*                                                                         *)
(* proc is the sequence of the encoder processes whose closure can still   *)
(* run something, oldest first: the record of a process holds its OS       *)
(* state, its processInfo and the state of the startStream call that       *)
(* spawned it (timers, exit/error handler, promise).  A process is named   *)
(* by its position in proc; when a closure has nothing left to run its     *)
(* record is dropped and the references to younger ones are renumbered     *)
(* (Commit).  The live-job table is `processes`, the camera registry       *)
(* (MongoDB collection) is `cam`; `mon` is the periodic check of the       *)
(* convergence loop (StreamMonitor.checkAllStreams).                       *)
(*                                                                         *)
(* Every step is one run of JavaScript between two suspension points       *)
(* (await, timer, event).  A registry operation takes effect in the step   *)
(* that issues it; W is the set of outcomes it may have (TRUE: success),   *)
(* and a failure is caught where the code catches it.                      *)
(***************************************************************************)
EXTENDS Integers, Sequences, FiniteSets, TLC

\* ---------------------------------------------------------------- bounds
\* encoder processes whose closure is still active at one time
MaxProc == 2

\* ------------------------------------------------------------- constants
\* the cameras of the registry, in the order a query returns them
NameOrder == <<"cam_1", "cam_2">>
Names == {NameOrder[i] : i \in 1..Len(NameOrder)}
NoProc == 0
\* a processId in the registry whose process record is gone
Stale == -1
maxRetries == 10
\* the observer counts the automatic restarts made in a row up to here
MaxAuto == maxRetries + 1
baseDelay == 2000
capDelay == 30000

\* config.mediamtx (src/config.js): protocol, host, httpPort
protocol == "http"
host == "cctv.thabir.ai"
httpPort == 8888

VARIABLES
  processes,      \* this.processes : Map<streamName, processInfo>, 0 = no entry
  proc,           \* the active processes / startStream closures, oldest first
  isShuttingDown, \* this.isShuttingDown
  stopAllPc,      \* position of the stopAll() call
  cam,            \* registry: Camera documents by streamName
  ev,             \* the last call that returned or spawned, and its result
  watch,          \* the startStream call an observer follows, 0 = none
  mon,            \* the periodic check pass of the monitor
  calm,           \* from now on spawns succeed, processes and the registry do not fail
  auto,           \* an observer's count, by name, of the automatic restarts made
                  \* in a row since the last explicit start (of the names observed)
  streamMonitor   \* the StreamMonitor object: isRunning, cronJob (scheduled or
                  \* not), and whether the 20 s timer of start() is still to fire

vars == <<processes, proc, isShuttingDown, stopAllPc, cam, ev, watch, mon, calm, auto,
          streamMonitor>>

Procs == 1..Len(proc)

\* --------------------------------------------------------- pure functions
getPublicBase ==
  LET p == IF protocol # "https" THEN "http" ELSE protocol
  IN  <<p, host, httpPort>>

\* a URL that exists only while the name has a job in the table
getPublicUrlOfJob(n) == IF processes[n] # NoProc THEN Append(getPublicBase, n) ELSE <<>>

\* `${getPublicBase()}/${streamName}` of getPublicUrl
getPublicUrl(n) == Append(getPublicBase, n)

\* the publicUrl constant of a startStream call (line 38)
publicUrl(n) == <<IF protocol # "https" THEN "http" ELSE protocol, host, httpPort, n>>

RECURSIVE Pow15(_)
\* 2000 * 1.5^k, rounded down
Pow15(k) == IF k = 0 THEN baseDelay ELSE (Pow15(k - 1) * 3) \div 2

retryDelay(rc) == IF Pow15(rc) < capDelay THEN Pow15(rc) ELSE capDelay

\* what a rejected start fails with
StartFailure == <<"StartFailure">>

\* the last call into the supervisor that returned or spawned: the operation,
\* the stream name, the caller and the result
Ev(op, n, who, r) == [op |-> op, n |-> n, who |-> who, ret |-> r]

\* any other step
NoEv == Ev("-", "", "", <<>>)

\* ------------------------------------------------------------ OS probes
\* process.kill(pid, 0) does not throw
KillZeroOk(p) == proc[p].os = "alive"

\* ffmpegProcess.pid is truthy
HasPid(p) == proc[p].os # "nopid"

\* processInfo.process.killed: kill('SIGTERM') was called on the child,
\* which only stopStream does
Killed(p) == proc[p].spc # "none"

\* Camera.updateOne({streamName}, {streaming, processId, lastChecked})
RegWrite(c, n, s, pidv, ok) ==
  IF ok THEN [c EXCEPT ![n].streaming = s, ![n].processId = pidv] ELSE c

\* resolve(publicUrl) without the resolvePromiseCalled flag
ResolveUnguarded(r) == [r EXCEPT !.settles = @ + 1, !.result = publicUrl(r.name)]

\* resolve(publicUrl) behind the resolvePromiseCalled flag; settles counts
\* the calls of resolve and reject
Resolve(r) ==
  IF r.settles = 0 THEN [r EXCEPT !.settles = 1, !.result = publicUrl(r.name)] ELSE r

\* reject(error) behind the resolvePromiseCalled flag
Reject(r) ==
  IF r.settles = 0 THEN [r EXCEPT !.settles = 1, !.result = StartFailure] ELSE r

\* ------------------------------------------------- dropping dead closures
\* A closure nothing can run for any more: the process is gone, its exit or
\* error handler has finished, its timers have fired, no stop waits on it.
Finished(r) ==
  /\ r.os \in {"dead", "nopid"}
  /\ r.tpc = "done"
  /\ r.hpc = "done"
  /\ r.spc \notin {"await", "awaitAll"}

\* the killed flag of a child is read for live children only (line 347);
\* it is kept until the exit handler of the child has finished
Settle(r) == IF r.hpc = "done" /\ r.spc = "returned" THEN [r EXCEPT !.spc = "none"] ELSE r

Keep(pr) ==
  LET live == SelectSeq(pr, LAMBDA r : ~Finished(r))
  IN  [i \in 1..Len(live) |-> Settle(live[i])]

\* the position of process j of pr once the finished records are dropped
NewIdx(pr, j) ==
  IF j = NoProc \/ j = Stale THEN j
  ELSE IF Finished(pr[j]) THEN Stale
  ELSE Cardinality({i \in 1..j : ~Finished(pr[i])})

\* no pass of the monitor is running
\* StreamMonitor.js 118-121: the monitor as constructed
MonitorNew == [isRunning |-> FALSE, cronJob |-> FALSE, initialCheck |-> FALSE]

\* StreamMonitor.js 126-147: the monitor once start() has returned: the cron
\* job is scheduled and the timer of the initial check is set
MonitorStarted == [isRunning |-> TRUE, cronJob |-> TRUE, initialCheck |-> TRUE]

MonIdle ==
  [pc |-> "idle", todo |-> <<>>, wait |-> NoProc,
   snap |-> [n \in Names |-> [active |-> FALSE, streaming |-> FALSE,
                               processId |-> NoProc]]]

\* The monitor's pass after a step that left the processes as pr: a pass
\* that awaits a startStream call goes on as soon as the call has settled
\* (StreamMonitor.js 192-193 after a resolve, 213-217 after a reject).
\* restoreStreams awaits its startStream call in the same way (line 293,
\* line 325 after a reject); wait goes on naming the call it awaited last,
\* whose timers are older than the timer the restoration sets next (line 297).
MonAfter(pr, m) ==
  LET m1 == [m EXCEPT !.wait = NewIdx(pr, @),
                      !.snap = [n \in Names |-> [@[n] EXCEPT !.processId = NewIdx(pr, @)]]]
  IN  IF m.pc = "start" /\ pr[m.wait].settles > 0
      THEN [m1 EXCEPT !.wait = NoProc,
                      !.pc = IF pr[m.wait].result = StartFailure THEN "rejected"
                             ELSE "resolved"]
      ELSE IF m.pc = "rstart" /\ pr[m.wait].settles > 0
      THEN IF pr[m.wait].result = StartFailure
           THEN [m1 EXCEPT !.pc = "rrejected"]
           ELSE [m1 EXCEPT !.pc = "rresolved"]
      ELSE m1

\* the step's effect on the processes, the table, the registry and the pass
CommitA(pr, tab, c, m, a) ==
  /\ proc' = Keep(pr)
  /\ processes' = [n \in Names |-> NewIdx(pr, tab[n])]
  /\ cam' = [n \in Names |-> [c[n] EXCEPT !.processId = NewIdx(pr, @)]]
  /\ watch' = IF NewIdx(pr, watch) = Stale THEN NoProc ELSE NewIdx(pr, watch)
  /\ mon' = MonAfter(pr, m)
  /\ auto' = a

CommitM(pr, tab, c, m) == CommitA(pr, tab, c, m, auto)

Commit(pr, tab, c) == CommitM(pr, tab, c, mon)

\* stopAll is called by the shutdown handlers only (lines 614-624,
\* server.js 169-218), which end the Node process once it has returned
Running == stopAllPc # "done"

Init ==
  /\ processes = [n \in Names |-> NoProc]
  /\ proc = <<>>
  /\ isShuttingDown = FALSE
  /\ stopAllPc = "idle"
  /\ cam = [n \in Names |-> [active |-> (n = "cam_1"), rtspUrl |-> "rtsp://src/a",
                             streaming |-> FALSE, processId |-> NoProc]]
  /\ ev = NoEv
  /\ watch = NoProc
  /\ auto = << >>
  /\ mon = MonIdle
  /\ calm = FALSE
  /\ streamMonitor = MonitorStarted

\* ------------------------------------------------------------ startStream
\* lines 21-28: the table has an entry with a pid and signal 0 reaches it
Deduped(n) == processes[n] # NoProc /\ HasPid(processes[n]) /\ KillZeroOk(processes[n])

\* a start of n that already fully resolved, whose process is alive and
\* was never sent a termination signal
ResolvedLive(n) ==
  \E q \in Procs : /\ proc[q].name = n /\ proc[q].result = publicUrl(n)
                   /\ proc[q].os = "alive" /\ ~Killed(q)

\* lines 75-94: the processInfo and the closure state of a fresh spawn.
\* With a pid the 2 s timer (lines 239-253) only logs and sets the
\* validation timer, so the closure starts past it (tpc = "t15").
NewProc(n, src, okH) ==
  [name |-> n, os |-> IF okH THEN "alive" ELSE "nopid",
   tpc |-> IF okH THEN "t15" ELSE "t2s", hpc |-> IF okH THEN "none" ELSE "errAwait",
   spc |-> "none", result |-> <<>>, settles |-> 0, isValidated |-> FALSE,
   restartCount |-> 0, rtspSource |-> src, exitVal |-> FALSE, delay |-> 0]

\* startStream(src, n) up to its first suspension point.  base is proc after
\* the caller's own updates.  okH: spawn obtained an OS handle.  Without a
\* handle the 'error' event is emitted on the next tick, before anything
\* else can run: its handler (lines 187-203) deletes the entry by name and
\* writes streaming=false (okW: that write succeeded).
\* the observer's count once a call by who has spawned a process for n:
\* the timer of an exit handler (lines 166-179) makes an automatic restart,
\* every other caller an explicit start
Counted(n, who) ==
  IF n \notin DOMAIN auto THEN auto
  ELSE [auto EXCEPT ![n] = IF who # "restart" THEN 0
                           ELSE IF @ < MaxAuto THEN @ + 1 ELSE @]

\* a start that spawns whatever the table holds
StartStreamMNoDedup(base, src, n, who, okH, okW, m) ==
  /\ Len(Keep(base)) < MaxProc
  /\ LET pr == Append(base, NewProc(n, src, okH))
         np == Len(pr)
     IN  /\ CommitA(pr, [processes EXCEPT ![n] = IF okH THEN np ELSE NoProc],
                    IF okH THEN cam ELSE RegWrite(cam, n, FALSE, NoProc, okW), m,
                    Counted(n, who))
         /\ ev' = Ev("startSpawn", n, who, <<ResolvedLive(n)>>)

\* m is the monitor's pass after the call (the pass itself may be the caller).
StartStreamM(base, src, n, who, okH, okW, m) ==
  IF Deduped(n)
  THEN /\ CommitM(base, processes, cam, m)
       /\ ev' = Ev("startDedup", n, who, getPublicUrl(n))
  ELSE /\ Len(Keep(base)) < MaxProc
       /\ LET pr == Append(base, NewProc(n, src, okH))
              np == Len(pr)
          IN  /\ CommitA(pr, [processes EXCEPT ![n] = IF okH THEN np ELSE NoProc],
                         IF okH THEN cam ELSE RegWrite(cam, n, FALSE, NoProc, okW), m,
                         Counted(n, who))
              /\ ev' = Ev("startSpawn", n, who, <<ResolvedLive(n)>>)

StartStream(base, src, n, who, okH, okW) ==
  StartStreamM(base, src, n, who, okH, okW, mon)

\* Timers of equal delay fire in the order they were set: when a timer of p
\* fires, the same timer of every older closure has fired.
TimerRank(t) == CASE t = "t2s" -> 0 [] t = "t15" -> 1 [] t = "t17" -> 2 [] OTHER -> 3

OlderPast(p, k) == \A q \in 1..(p - 1) : TimerRank(proc[q].tpc) >= k

\* a caller of the route layer (PUT /:id/start, camera.js 446-453);
\* H is the set of outcomes the spawn may have (TRUE: an OS handle)
ApiStart(n, W, H) ==
  /\ Running
  /\ cam[n].active
  /\ \E okH \in H : \E okW \in IF okH THEN {TRUE} ELSE W :
       StartStream(proc, cam[n].rtspUrl, n, "api", okH, okW)
  /\ UNCHANGED <<isShuttingDown, stopAllPc, calm, streamMonitor>>

\* lines 204-208: the error handler after its awaited registry write
ErrorHandlerFinish(p) ==
  /\ Running
  /\ proc[p].hpc = "errAwait"
  /\ Commit([proc EXCEPT ![p] = Reject([@ EXCEPT !.hpc = "done"])], processes, cam)
  /\ ev' = NoEv
  /\ UNCHANGED <<isShuttingDown, stopAllPc, calm, streamMonitor>>

\* a handle check that rejects and leaves the table as it is
HandleCheckKeepsEntry(p) ==
  /\ Running
  /\ proc[p].tpc = "t2s"
  /\ ~HasPid(p)
  /\ OlderPast(p, 1)
  /\ Commit([proc EXCEPT ![p] = Reject([@ EXCEPT !.tpc = "done"])], processes, cam)
  /\ ev' = NoEv
  /\ UNCHANGED <<isShuttingDown, stopAllPc, calm, streamMonitor>>

\* lines 239-248: the 2 s timer of a process without a pid: it deletes the
\* entry by name and rejects; the fallback timer that fires later finds
\* resolvePromiseCalled set
HandleCheck(p) ==
  /\ Running
  /\ proc[p].tpc = "t2s"
  /\ ~HasPid(p)
  /\ OlderPast(p, 1)
  /\ Commit([proc EXCEPT ![p] = Reject([@ EXCEPT !.tpc = "done"])],
            [processes EXCEPT ![proc[p].name] = NoProc], cam)
  /\ ev' = NoEv
  /\ UNCHANGED <<isShuttingDown, stopAllPc, calm, streamMonitor>>

\* a fallback timer that fails the call when the ceiling is reached
FallbackTimeoutRejects(p) ==
  /\ Running
  /\ proc[p].tpc = "t15"
  /\ OlderPast(p, 2)
  /\ Commit([proc EXCEPT ![p] = Reject([@ EXCEPT !.tpc = "t17"])], processes, cam)
  /\ ev' = NoEv
  /\ UNCHANGED <<isShuttingDown, stopAllPc, calm, streamMonitor>>

\* lines 327-333: the 15 s fallback timer; it expires after the 2 s timer
\* and before the validation timer set 15 s after the 2 s timer fired
FallbackTimeout(p) ==
  /\ Running
  /\ proc[p].tpc = "t15"
  /\ OlderPast(p, 2)
  /\ Commit([proc EXCEPT ![p] = IF ~@.isValidated THEN Resolve([@ EXCEPT !.tpc = "t17"])
                                ELSE [@ EXCEPT !.tpc = "t17"]],
            processes, cam)
  /\ ev' = NoEv
  /\ UNCHANGED <<isShuttingDown, stopAllPc, calm, streamMonitor>>

\* lines 212-236
validateProcess(p) ==
  /\ HasPid(p)
  /\ KillZeroOk(p)
  /\ processes[proc[p].name] # NoProc

\* lines 255-283: the validation timer, up to the relay probe
ValidationTimer(p, W) ==
  /\ Running
  /\ proc[p].tpc = "t17"
  /\ OlderPast(p, 3)
  /\ IF validateProcess(p)
     THEN Commit([proc EXCEPT ![p].tpc = "probe"], processes, cam)
     ELSE \E okW \in W :
            Commit([proc EXCEPT ![p] = Resolve([@ EXCEPT !.tpc = "done"])],
                   processes, RegWrite(cam, proc[p].name, FALSE, NoProc, okW))
  /\ ev' = NoEv
  /\ UNCHANGED <<isShuttingDown, stopAllPc, calm, streamMonitor>>

\* a validation that marks the job and writes the registry only when the
\* relay probe succeeded (okP)
ProbeDoneStrict(p, W) ==
  /\ Running
  /\ proc[p].tpc = "probe"
  /\ \E okP \in BOOLEAN : \E okW \in W :
       IF okP
       THEN Commit([proc EXCEPT ![p] = Resolve([@ EXCEPT !.tpc = "done", !.isValidated = TRUE])],
                   processes, RegWrite(cam, proc[p].name, TRUE, p, okW))
       ELSE Commit([proc EXCEPT ![p] = Resolve([@ EXCEPT !.tpc = "done"])], processes, cam)
  /\ ev' = NoEv
  /\ UNCHANGED <<isShuttingDown, stopAllPc, calm, streamMonitor>>

\* lines 283-322: verifyStreamAvailability has returned; its result is only
\* logged: the job is marked validated and streaming=true is written
ProbeDone(p, W) ==
  /\ Running
  /\ proc[p].tpc = "probe"
  /\ \E okW \in W :
       Commit([proc EXCEPT ![p] = Resolve([@ EXCEPT !.tpc = "done", !.isValidated = TRUE])],
              processes, RegWrite(cam, proc[p].name, TRUE, p, okW))
  /\ ev' = NoEv
  /\ UNCHANGED <<isShuttingDown, stopAllPc, calm, streamMonitor>>

\* ------------------------------------------------------- the OS, the child
\* the encoder process terminates (crash, source loss, or its reaction to
\* SIGTERM); the 'exit' notification is delivered later
ProcessDies(p) ==
  /\ Running
  /\ proc[p].os = "alive"
  /\ Commit([proc EXCEPT ![p].os = "dead"], processes, cam)
  /\ ev' = NoEv
  /\ UNCHANGED <<isShuttingDown, stopAllPc, calm, streamMonitor>>

\* an exit handler that writes the registry and leaves the table alone
ExitHandlerKeepsEntry(p, W) ==
  /\ Running
  /\ proc[p].os = "dead"
  /\ proc[p].hpc = "none"
  /\ \E okW \in W :
       Commit([proc EXCEPT ![p].hpc = "exitAwait", ![p].exitVal = proc[p].isValidated],
              processes,
              RegWrite(cam, proc[p].name, FALSE, NoProc, okW))
  /\ ev' = NoEv
  /\ UNCHANGED <<isShuttingDown, stopAllPc, calm, streamMonitor>>

\* lines 137-156: the exit handler up to its awaited registry write;
\* exitVal remembers whether the job was validated when the notification came
ExitHandler(p, W) ==
  /\ Running
  /\ proc[p].os = "dead"
  /\ proc[p].hpc = "none"
  /\ \E okW \in W :
       Commit([proc EXCEPT ![p].hpc = "exitAwait", ![p].exitVal = proc[p].isValidated],
              [processes EXCEPT ![proc[p].name] = NoProc],
              RegWrite(cam, proc[p].name, FALSE, NoProc, okW))
  /\ ev' = NoEv
  /\ UNCHANGED <<isShuttingDown, stopAllPc, calm, streamMonitor>>

\* a restart decision that does not look at isValidated
RestartScheduledUnvalidated(p) ==
  /\ ~isShuttingDown
  /\ proc[p].restartCount < maxRetries

\* lines 158-165, 180-183: the restart decision of the exit handler
RestartScheduled(p) ==
  /\ ~isShuttingDown
  /\ proc[p].isValidated
  /\ proc[p].restartCount < maxRetries

\* lines 158-183: the exit handler after the write
ExitHandlerFinish(p) ==
  /\ Running
  /\ proc[p].hpc = "exitAwait"
  /\ Commit([proc EXCEPT ![p].hpc = IF RestartScheduled(p) THEN "timer" ELSE "done",
                         ![p].delay = IF RestartScheduled(p)
                                      THEN retryDelay(proc[p].restartCount) ELSE 0],
            processes, cam)
  /\ ev' = NoEv
  /\ UNCHANGED <<isShuttingDown, stopAllPc, calm, streamMonitor>>

\* a restart that passes the source the job that exited was started with
RestartTimerOldSource(p, W, H) ==
  /\ Running
  /\ proc[p].hpc = "timer"
  /\ LET n == proc[p].name
         base == [proc EXCEPT ![p].hpc = "done", ![p].delay = 0]
     IN  \E okR \in W :
           IF ~okR
           THEN /\ Commit(base, processes, cam)
                /\ ev' = Ev("restartFailed", n, "restart", <<>>)
           ELSE IF cam[n].active
           THEN \E okH \in H : \E okW \in IF okH THEN {TRUE} ELSE W :
                  StartStream([base EXCEPT ![p].restartCount = @ + 1],
                              proc[p].rtspSource, n, "restart", okH, okW)
           ELSE /\ Commit(base, processes, cam)
                /\ ev' = Ev("restartSkipped", n, "restart", <<>>)
  /\ UNCHANGED <<isShuttingDown, stopAllPc, calm, streamMonitor>>

\* lines 166-179: the restart timer fires: the registry is asked for the
\* active camera of that name (okR: the lookup succeeded), then startStream
RestartTimer(p, W, H) ==
  /\ Running
  /\ proc[p].hpc = "timer"
  /\ LET n == proc[p].name
         base == [proc EXCEPT ![p].hpc = "done", ![p].delay = 0]
     IN  \E okR \in W :
           IF ~okR
           THEN /\ Commit(base, processes, cam)
                /\ ev' = Ev("restartFailed", n, "restart", <<>>)
           ELSE IF cam[n].active
           THEN \E okH \in H : \E okW \in IF okH THEN {TRUE} ELSE W :
                  StartStream([base EXCEPT ![p].restartCount = @ + 1],
                              cam[n].rtspUrl, n, "restart", okH, okW)
           ELSE /\ Commit(base, processes, cam)
                /\ ev' = Ev("restartSkipped", n, "restart", <<>>)
  /\ UNCHANGED <<isShuttingDown, stopAllPc, calm, streamMonitor>>

\* --------------------------------------------------------------- stopStream
\* lines 341-391 for an existing entry: SIGTERM, the 3 s SIGKILL timer,
\* delete, the registry write; spc is where the caller waits
StopEntry(pr, p, mark) == [pr EXCEPT ![p].spc = mark]

\* a stop without a job that marks the camera as not streaming
StopNoJobWrites(n) ==
  /\ processes[n] = NoProc
  /\ cam' = RegWrite(cam, n, FALSE, NoProc, TRUE)
  /\ UNCHANGED <<processes, proc, watch, mon, auto>>

\* lines 341-343, 399-400: stopStream(n) without an entry of n touches
\* nothing and returns false
StopNoJob(n) ==
  /\ processes[n] = NoProc
  /\ UNCHANGED <<processes, proc, cam, watch, mon, auto>>

\* stopStream(n) up to its awaited registry write, or to `return false`
StopStream(n, W) ==
  /\ Running
  /\ IF processes[n] # NoProc
     THEN /\ \E okW \in W :
               Commit(StopEntry(proc, processes[n], "await"),
                      [processes EXCEPT ![n] = NoProc],
                      RegWrite(cam, n, FALSE, NoProc, okW))
          /\ ev' = NoEv
     ELSE StopNoJob(n) /\ UNCHANGED ev
  /\ UNCHANGED <<isShuttingDown, stopAllPc, calm, streamMonitor>>

\* no start of the name of p spawned a process after p was spawned
Newest(p) == \A q \in (p + 1)..Len(proc) : proc[q].name # proc[p].name

\* line 397: stopStream returns true after the awaited registry write
StopReturn(p) ==
  /\ Running
  /\ proc[p].spc = "await"
  /\ Commit([proc EXCEPT ![p].spc = "returned"], processes, cam)
  /\ ev' = NoEv
  /\ UNCHANGED <<isShuttingDown, stopAllPc, calm, streamMonitor>>

\* lines 352-366: the SIGKILL timer of a stop fires while the process has
\* not exited (the 'exit' event clears the timer)
KillTimer(p) ==
  /\ Running
  /\ Killed(p)
  /\ proc[p].hpc = "none"
  /\ proc[p].os = "alive"
  /\ Commit([proc EXCEPT ![p].os = "dead"], processes, cam)
  /\ ev' = NoEv
  /\ UNCHANGED <<isShuttingDown, stopAllPc, calm, streamMonitor>>

\* ------------------------------------------------------------------ queries
\* a check that looks at the table only
isStreamRunningByTable(n) == processes[n] # NoProc

\* the keys of the table, whatever the state of their processes
getActiveStreamsByTable == {n \in Names : processes[n] # NoProc}

\* lines 459-476: the value isStreamRunning(n) returns
isStreamRunning(n) ==
  processes[n] # NoProc /\ HasPid(processes[n]) /\ KillZeroOk(processes[n])

\* lines 481-495: the value getActiveStreams() returns
getActiveStreams ==
  {n \in Names : processes[n] # NoProc
                 /\ (HasPid(processes[n]) => KillZeroOk(processes[n]))}

\* ---------------------------------------------------- the convergence loop
\* the table once isStreamRunning / getActiveStreams has looked at the names
\* S: an entry whose process has a pid that signal 0 does not reach is deleted
PurgeDead(tab, S) ==
  [n \in Names |->
     IF n \in S /\ tab[n] # NoProc /\ HasPid(tab[n]) /\ ~KillZeroOk(tab[n])
     THEN NoProc ELSE tab[n]]

\* a query that returns every camera of the collection
AllCameras == NameOrder

\* Camera.find({ active: true }), in the order of the collection
ActiveSeq == SelectSeq(NameOrder, LAMBDA n : cam[n].active)

\* a save that writes the whole document as it was read, changed or not
SaveDocWhole(c, n, sn, s, pidv) ==
  [c EXCEPT ![n].streaming = s, ![n].processId = pidv, ![n].active = sn[n].active]

\* camera.save() of a document read as sn and then assigned streaming = s,
\* processId = pidv: only a path whose value changed is written
SaveDoc(c, n, sn, s, pidv) ==
  [c EXCEPT ![n].streaming = IF s # sn[n].streaming THEN s ELSE @,
            ![n].processId = IF pidv # sn[n].processId THEN pidv ELSE @]

\* StreamMonitor.js 241: `await camera.save()` of the camera in hand; a
\* failure leaves the loop for the catch of line 246 and ends the pass.
\* "saveR": the camera was restarted in this pass (restartedCount, line 194),
\* "saveF": its start was rejected (line 213)
MonSave(m, tab, s, pidv, W) ==
  /\ \E okW \in W :
       CommitM(proc, tab,
               IF okW THEN SaveDoc(cam, Head(m.todo), m.snap, s, pidv) ELSE cam,
               IF okW
               THEN [m EXCEPT !.pc = CASE m.pc = "resolved" -> "saveR"
                                       [] m.pc = "rejected" -> "saveF"
                                       [] OTHER -> "save"]
               ELSE MonIdle)
  /\ ev' = NoEv

\* a pass that records a stream that is down and does not start it
VisitCameraNoStart(m, W, H) ==
  LET n == Head(m.todo)
  IN  IF ~isStreamRunning(n)
      THEN MonSave(m, processes, FALSE, NoProc, W)
      ELSE MonSave(m, processes, TRUE, processes[n], W)

\* StreamMonitor.js 180-240: the camera in hand, up to the first await:
\* not running: startStream(camera.rtspUrl, camera.streamName);
\* running: streaming/processId are refreshed where they differ;
\* not running and read as inactive: streaming is cleared if it was set
VisitCamera(m, W, H) ==
  LET n == Head(m.todo)
  IN  IF ~isStreamRunning(n) /\ m.snap[n].active
      THEN \E okH \in H : \E okW \in IF okH THEN {TRUE} ELSE W :
             StartStreamM(proc, cam[n].rtspUrl, n, "monitor", okH, okW,
                          [m EXCEPT !.pc = "start", !.wait = Len(proc) + 1])
      ELSE IF isStreamRunning(n)
      THEN MonSave(m, processes, TRUE, processes[n], W)
      ELSE MonSave(m, processes, FALSE,
                   IF m.snap[n].streaming THEN NoProc ELSE m.snap[n].processId, W)

\* StreamMonitor.js 166-171: checkAllStreams is entered: the registry is
\* asked for the active cameras (okR: the query succeeded)
PassBegins(okR) ==
  IF okR /\ ActiveSeq # <<>>
  THEN [MonIdle EXCEPT !.pc = "found", !.todo = ActiveSeq,
          !.snap = [n \in Names |->
                      IF cam[n].active
                      THEN [active |-> TRUE, streaming |-> cam[n].streaming,
                            processId |-> cam[n].processId]
                      ELSE MonIdle.snap[n]]]
  ELSE mon

\* StreamMonitor.js 133-138, 166: a tick of the 15 s schedule of the cron
\* job while no pass is running: the registry is asked
\* for the active cameras (okR: the query succeeded)
MonTick(W) ==
  /\ Running
  /\ streamMonitor.cronJob
  /\ mon.pc = "idle"
  /\ \E okR \in W : mon' = PassBegins(okR)
  /\ ev' = NoEv
  /\ UNCHANGED <<processes, proc, isShuttingDown, stopAllPc, cam, watch, calm, auto, streamMonitor>>

\* StreamMonitor.js 140-144: the timer of the initial check fires, 20 s
\* after start(); nothing clears it.  The model follows one pass at a time:
\* when a pass is running the timer is only spent
InitialCheck(W) ==
  /\ Running
  /\ streamMonitor.initialCheck
  /\ streamMonitor' = [streamMonitor EXCEPT !.initialCheck = FALSE]
  /\ \E okR \in W : mon' = IF mon.pc = "idle" THEN PassBegins(okR) ELSE mon
  /\ ev' = NoEv
  /\ UNCHANGED <<processes, proc, isShuttingDown, stopAllPc, cam, watch, calm, auto>>

\* server.js 138-142: restoreStreams() has returned (it catches whatever
\* fails in it) and streamMonitor.start() is called
MonitorStart ==
  /\ Running
  /\ mon.pc = "rdone"
  /\ ~streamMonitor.isRunning
  /\ streamMonitor' = MonitorStarted
  /\ mon' = MonIdle
  /\ ev' = NoEv
  /\ UNCHANGED <<processes, proc, isShuttingDown, stopAllPc, cam, watch, calm, auto>>

\* StreamMonitor.js 168-180: the query has returned, the loop starts
MonVisit(W, H) ==
  /\ Running
  /\ mon.pc = "found"
  /\ VisitCamera(mon, W, H)
  /\ UNCHANGED <<isShuttingDown, stopAllPc, calm, streamMonitor>>

\* a check that records the outcome of the start, without the re-check
MonRecheckTrusting(W) ==
  /\ Running
  /\ mon.pc = "resolved"
  /\ MonSave(mon, processes, TRUE, processes[Head(mon.todo)], W)
  /\ UNCHANGED <<isShuttingDown, stopAllPc, calm, streamMonitor>>

\* StreamMonitor.js 196-212: 3 s after the start resolved the stream is
\* checked again and the outcome is saved
MonRecheck(W) ==
  /\ Running
  /\ mon.pc = "resolved"
  /\ LET n == Head(mon.todo)
     IN  MonSave(mon, PurgeDead(processes, {n}), isStreamRunning(n),
                 IF isStreamRunning(n) THEN processes[n] ELSE NoProc, W)
  /\ UNCHANGED <<isShuttingDown, stopAllPc, calm, streamMonitor>>

\* StreamMonitor.js 213-217: the start was rejected
MonRejected(W) ==
  /\ Running
  /\ mon.pc = "rejected"
  /\ MonSave(mon, processes, FALSE, NoProc, W)
  /\ UNCHANGED <<isShuttingDown, stopAllPc, calm, streamMonitor>>

\* StreamMonitor.js 241-245: the save has returned: the next camera, or
\* getActiveStreams() and the end of the pass
MonSaved(W, H) ==
  /\ Running
  /\ mon.pc \in {"save", "saveR", "saveF"}
  /\ IF Tail(mon.todo) = <<>>
     THEN /\ CommitM(proc, PurgeDead(processes, Names), cam, MonIdle)
          /\ ev' = NoEv
     ELSE VisitCamera([mon EXCEPT !.todo = Tail(@)], W, H)
  /\ UNCHANGED <<isShuttingDown, stopAllPc, calm, streamMonitor>>

\* ------------------------------------------------------------------ stopAll
Live == {n \in Names : processes[n] # NoProc}

\* a process that a stop sent SIGTERM to is still running
StoppedAlive == \E p \in Procs : Killed(p) /\ proc[p].os = "alive"

\* lines 406-430: the flag, then every stopStream up to its awaited write
\* (Wok: the names whose registry write succeeded); sm is the monitor as
\* the caller left it before the call
StopAllWith(W, sm) ==
  /\ stopAllPc = "idle"
  /\ isShuttingDown' = TRUE
  /\ streamMonitor' = sm
  /\ UNCHANGED calm
  /\ IF Live = {}
     THEN /\ stopAllPc' = "done"
          /\ proc' = <<>>
          /\ watch' = NoProc
          /\ auto' = auto
          /\ mon' = MonIdle
          /\ cam' = [n \in Names |->
                       [cam[n] EXCEPT !.processId = IF @ = NoProc THEN NoProc ELSE Stale]]
          /\ ev' = Ev("stopAllReturn", "", "api", <<FALSE, StoppedAlive>>)
          /\ UNCHANGED processes
     ELSE /\ stopAllPc' = "await"
          /\ \E Wok \in {S \in SUBSET Live : TRUE \in W /\ (FALSE \in W \/ S = Live)} :
               Commit([p \in Procs |->
                         IF \E n \in Live : processes[n] = p
                         THEN [proc[p] EXCEPT !.spc = "awaitAll"] ELSE proc[p]],
                      [n \in Names |-> NoProc],
                      [n \in Names |->
                         IF n \in Wok
                         THEN [cam[n] EXCEPT !.streaming = FALSE, !.processId = NoProc]
                         ELSE cam[n]])
          /\ ev' = NoEv

\* stopAll() called on its own
StopAll(W) == StopAllWith(W, streamMonitor)

\* StreamMonitor.js 152-159: stop() stops the cron job and clears isRunning
MonitorStopped == [streamMonitor EXCEPT !.isRunning = FALSE, !.cronJob = FALSE]

\* server.js 169-188: gracefulShutdown calls streamMonitor.stop() and then
\* ffmpegManager.stopAll(), which runs up to its first await
GracefulShutdown(W) == StopAllWith(W, MonitorStopped)

\* lines 430-446: every stop has returned; SIGKILL what is in the table now,
\* clear the table and return.  The result recorded is whether a process
\* that stopAll stopped is still running, and whether one that any stop
\* signalled is.  The caller then ends the Node
\* process, and every closure with it.
StopAllFinish ==
  /\ stopAllPc = "await"
  /\ stopAllPc' = "done"
  /\ proc' = <<>>
  /\ watch' = NoProc
  /\ auto' = auto
  /\ mon' = MonIdle
  /\ processes' = [n \in Names |-> NoProc]
  /\ cam' = [n \in Names |->
               [cam[n] EXCEPT !.processId = IF @ = NoProc THEN NoProc ELSE Stale]]
  /\ ev' = Ev("stopAllReturn", "", "api",
              <<\E p \in Procs : proc[p].spc = "awaitAll" /\ proc[p].os = "alive",
                StoppedAlive>>)
  /\ UNCHANGED <<isShuttingDown, calm, streamMonitor>>

\* ---------------------------------------------------------- specification
\* any registry operation may fail
Next ==
  \/ \E n \in Names : ApiStart(n, BOOLEAN, BOOLEAN)
  \/ \E n \in Names : StopStream(n, BOOLEAN)
  \/ \E p \in Procs : ErrorHandlerFinish(p)
  \/ \E p \in Procs : HandleCheck(p)
  \/ \E p \in Procs : FallbackTimeout(p)
  \/ \E p \in Procs : ValidationTimer(p, BOOLEAN)
  \/ \E p \in Procs : ProbeDone(p, BOOLEAN)
  \/ \E p \in Procs : ProcessDies(p)
  \/ \E p \in Procs : ExitHandler(p, BOOLEAN)
  \/ \E p \in Procs : ExitHandlerFinish(p)
  \/ \E p \in Procs : RestartTimer(p, BOOLEAN, BOOLEAN)
  \/ \E p \in Procs : StopReturn(p)
  \/ \E p \in Procs : KillTimer(p)
  \/ StopAll(BOOLEAN)
  \/ StopAllFinish

Spec == Init /\ [][Next]_vars

\* every registry operation succeeds
NextUp ==
  \/ \E n \in Names : ApiStart(n, {TRUE}, BOOLEAN)
  \/ \E n \in Names : StopStream(n, {TRUE})
  \/ \E p \in Procs : ErrorHandlerFinish(p)
  \/ \E p \in Procs : HandleCheck(p)
  \/ \E p \in Procs : FallbackTimeout(p)
  \/ \E p \in Procs : ValidationTimer(p, {TRUE})
  \/ \E p \in Procs : ProbeDone(p, {TRUE})
  \/ \E p \in Procs : ProcessDies(p)
  \/ \E p \in Procs : ExitHandler(p, {TRUE})
  \/ \E p \in Procs : ExitHandlerFinish(p)
  \/ \E p \in Procs : RestartTimer(p, {TRUE}, BOOLEAN)
  \/ \E p \in Procs : StopReturn(p)
  \/ \E p \in Procs : KillTimer(p)
  \/ StopAll({TRUE})
  \/ StopAllFinish

SpecUp == Init /\ [][NextUp]_vars

\* Timers expire, awaited operations complete and exit notifications are
\* delivered; calls from outside, process deaths and shutdown need not happen.
Fairness ==
  /\ WF_vars(\E p \in Procs : ErrorHandlerFinish(p))
  /\ WF_vars(\E p \in Procs : HandleCheck(p))
  /\ WF_vars(\E p \in Procs : FallbackTimeout(p))
  /\ WF_vars(\E p \in Procs : ValidationTimer(p, BOOLEAN))
  /\ WF_vars(\E p \in Procs : ProbeDone(p, BOOLEAN))
  /\ WF_vars(\E p \in Procs : ExitHandler(p, BOOLEAN))
  /\ WF_vars(\E p \in Procs : ExitHandlerFinish(p))
  /\ WF_vars(\E p \in Procs : RestartTimer(p, BOOLEAN, BOOLEAN))
  /\ WF_vars(\E p \in Procs : StopReturn(p))
  /\ WF_vars(StopAllFinish)

\* an observer starts to follow a call that has not settled
Follow(p) ==
  /\ Running
  /\ watch = NoProc
  /\ proc[p].settles = 0
  /\ watch' = p
  /\ UNCHANGED <<processes, proc, isShuttingDown, stopAllPc, cam, ev, mon, calm, auto, streamMonitor>>

NextFair ==
  \/ Next
  \/ \E p \in Procs : Follow(p)

FairSpec == Init /\ [][NextFair]_vars /\ Fairness

\* the same while every registry operation succeeds
FairnessUp ==
  /\ WF_vars(\E p \in Procs : ErrorHandlerFinish(p))
  /\ WF_vars(\E p \in Procs : HandleCheck(p))
  /\ WF_vars(\E p \in Procs : FallbackTimeout(p))
  /\ WF_vars(\E p \in Procs : ValidationTimer(p, {TRUE}))
  /\ WF_vars(\E p \in Procs : ProbeDone(p, {TRUE}))
  \* the probe of each job returns on its own: the one of the followed job
  \* is not starved by the probes of newer jobs
  /\ WF_vars(watch \in Procs /\ ProbeDone(watch, {TRUE}))
  /\ WF_vars(\E p \in Procs : ExitHandler(p, {TRUE}))
  /\ WF_vars(\E p \in Procs : ExitHandlerFinish(p))
  /\ WF_vars(\E p \in Procs : RestartTimer(p, {TRUE}, BOOLEAN))
  /\ WF_vars(\E p \in Procs : StopReturn(p))
  /\ WF_vars(StopAllFinish)

NextFairUp ==
  \/ NextUp
  \/ \E p \in Procs : Follow(p)

FairUp == Init /\ [][NextFairUp]_vars /\ FairnessUp

\* ------------------------------------- the supervisor under the monitor
\* the outcomes of a registry operation and of a spawn: anything until the
\* environment has calmed down, success from then on
Wc == IF calm THEN {TRUE} ELSE BOOLEAN

Hc == IF calm THEN {TRUE} ELSE BOOLEAN

\* The supervisor with the monitor as its only caller: no call of the route
\* layer, no shutdown.  From Calm on every spawn obtains a process, no
\* process terminates and the registry answers.
Calm ==
  /\ ~calm
  /\ calm' = TRUE
  /\ UNCHANGED <<processes, proc, isShuttingDown, stopAllPc, cam, ev, watch, mon, auto,
               streamMonitor>>

NextMon ==
  \/ ~calm /\ \E p \in Procs : ProcessDies(p)
  \/ Calm
  \/ \E p \in Procs : ErrorHandlerFinish(p)
  \/ \E p \in Procs : HandleCheck(p)
  \/ \E p \in Procs : FallbackTimeout(p)
  \/ \E p \in Procs : ValidationTimer(p, Wc)
  \/ \E p \in Procs : ProbeDone(p, Wc)
  \/ \E p \in Procs : ExitHandler(p, Wc)
  \/ \E p \in Procs : ExitHandlerFinish(p)
  \/ \E p \in Procs : RestartTimer(p, Wc, Hc)
  \/ MonTick(Wc)
  \/ MonVisit(Wc, Hc)
  \/ MonRecheck(Wc)
  \/ MonRejected(Wc)
  \/ MonSaved(Wc, Hc)

\* timers (the monitor's schedule among them) expire, awaited operations
\* complete, exit notifications are delivered
FairnessMon ==
  /\ WF_vars(\E p \in Procs : ErrorHandlerFinish(p))
  /\ WF_vars(\E p \in Procs : HandleCheck(p))
  /\ WF_vars(\E p \in Procs : FallbackTimeout(p))
  /\ WF_vars(\E p \in Procs : ValidationTimer(p, Wc))
  /\ WF_vars(\E p \in Procs : ProbeDone(p, Wc))
  /\ WF_vars(\E p \in Procs : ExitHandler(p, Wc))
  /\ WF_vars(\E p \in Procs : ExitHandlerFinish(p))
  /\ WF_vars(\E p \in Procs : RestartTimer(p, Wc, Hc))
  /\ WF_vars(MonTick(Wc))
  /\ WF_vars(MonVisit(Wc, Hc))
  /\ WF_vars(MonRecheck(Wc))
  /\ WF_vars(MonRejected(Wc))
  /\ WF_vars(MonSaved(Wc, Hc))

FairMon == Init /\ [][NextMon]_vars /\ FairnessMon

\* ------------------------------------------ the supervisor and its queries
\* the name n in the form a query returns it with the names of a set
NamesIn(S) == SelectSeq(NameOrder, LAMBDA n : n \in S)

\* a caller asks isStreamRunning(n) (camera.js 209, 310, 381)
IsRunningCall(n) ==
  /\ Running
  /\ Commit(proc, PurgeDead(processes, {n}), cam)
  /\ ev' = Ev("isStreamRunning", n, "api", <<isStreamRunning(n)>>)
  /\ UNCHANGED <<isShuttingDown, stopAllPc, calm, streamMonitor>>

\* a caller asks getActiveStreams() (server.js 77)
ActiveStreamsCall ==
  /\ Running
  /\ Commit(proc, PurgeDead(processes, Names), cam)
  /\ ev' = Ev("getActiveStreams", "", "api", NamesIn(getActiveStreams))
  /\ UNCHANGED <<isShuttingDown, stopAllPc, calm, streamMonitor>>

\* a caller asks getPublicUrl(n) (camera.js 99)
PublicUrlCall(n) ==
  /\ Running
  /\ ev' = Ev("getPublicUrl", n, "api", getPublicUrl(n))
  /\ UNCHANGED <<processes, proc, isShuttingDown, stopAllPc, cam, watch, mon, calm, auto, streamMonitor>>

\* a caller's stopStream(n) that finds no entry of n returns false
StopFalse(n) ==
  /\ Running
  /\ StopNoJob(n)
  /\ ev' = Ev("stopStream", n, "api", <<FALSE>>)
  /\ UNCHANGED <<isShuttingDown, stopAllPc, calm, streamMonitor>>

NextQ ==
  \/ Next
  \/ \E n \in Names : IsRunningCall(n)
  \/ ActiveStreamsCall
  \/ \E n \in Names : PublicUrlCall(n)
  \/ \E n \in Names : StopFalse(n)

SpecQ == Init /\ [][NextQ]_vars

\* ------------------------------ the monitor and a camera that is deactivated
\* both cameras of the registry are active
InitBoth ==
  /\ processes = [n \in Names |-> NoProc]
  /\ proc = <<>>
  /\ isShuttingDown = FALSE
  /\ stopAllPc = "idle"
  /\ cam = [n \in Names |-> [active |-> TRUE, rtspUrl |-> "rtsp://src/a",
                             streaming |-> FALSE, processId |-> NoProc]]
  /\ ev = NoEv
  /\ watch = NoProc
  /\ auto = << >>
  /\ mon = MonIdle
  /\ calm = FALSE
  /\ streamMonitor = MonitorStarted

\* camera.js 627-629 (PUT /:id/deactivate): the record is saved with
\* active = false, streaming = false
Deactivate(n) ==
  /\ cam[n].active
  /\ cam' = [cam EXCEPT ![n].active = FALSE, ![n].streaming = FALSE]
  /\ ev' = NoEv
  /\ UNCHANGED <<processes, proc, isShuttingDown, stopAllPc, watch, mon, calm, auto, streamMonitor>>

\* every spawn obtains a process and the registry answers
NextInact ==
  \/ Deactivate("cam_2")
  \/ \E p \in Procs : ProcessDies(p)
  \/ \E p \in Procs : FallbackTimeout(p)
  \/ \E p \in Procs : ValidationTimer(p, {TRUE})
  \/ \E p \in Procs : ProbeDone(p, {TRUE})
  \/ \E p \in Procs : ExitHandler(p, {TRUE})
  \/ \E p \in Procs : ExitHandlerFinish(p)
  \/ \E p \in Procs : RestartTimer(p, {TRUE}, {TRUE})
  \/ MonTick({TRUE})
  \/ MonVisit({TRUE}, {TRUE})
  \/ MonRecheck({TRUE})
  \/ MonSaved({TRUE}, {TRUE})

SpecInact == InitBoth /\ [][NextInact]_vars

\* ------------------------------------------------ the startup restoration
\* server.js 138: restoreStreams() has been called once the registry is
\* connected; Camera.find({ active: true }) (line 258) is in flight
InitRestore ==
  /\ processes = [n \in Names |-> NoProc]
  /\ proc = <<>>
  /\ isShuttingDown = FALSE
  /\ stopAllPc = "idle"
  /\ cam = [n \in Names |-> [active |-> TRUE, rtspUrl |-> "rtsp://src/a",
                             streaming |-> FALSE, processId |-> NoProc]]
  /\ ev = NoEv
  /\ watch = NoProc
  /\ auto = << >>
  /\ mon = [MonIdle EXCEPT !.pc = "restore"]
  /\ calm = FALSE
  /\ streamMonitor = MonitorNew

\* StreamMonitor.js 284, 307, 316: `await camera.save()` in the try block of
\* the camera in hand; a failure is thrown into the catch of line 325
RestoreSave(m, tab, s, pidv, W, next) ==
  /\ \E okW \in W :
       CommitM(proc, tab,
               IF okW THEN SaveDoc(cam, Head(m.todo), m.snap, s, pidv) ELSE cam,
               [m EXCEPT !.pc = IF okW THEN next ELSE "rthrown"])
  /\ ev' = NoEv

\* StreamMonitor.js 270-293: the camera in hand, up to the first await:
\* already running: streaming/processId are saved and the loop continues;
\* otherwise `await ffmpegManager.startStream(camera.rtspUrl, camera.streamName)`
RestoreVisit(m, W, H) ==
  LET n == Head(m.todo)
  IN  IF isStreamRunning(n)
      THEN RestoreSave(m, processes, TRUE, processes[n], W, "rnext")
      ELSE \E okH \in H : \E okW \in IF okH THEN {TRUE} ELSE W :
             StartStreamM(proc, cam[n].rtspUrl, n, "restore", okH, okW,
                          [m EXCEPT !.pc = "rstart", !.wait = Len(proc) + 1])

\* StreamMonitor.js 257-265: the query has returned (okR: it succeeded);
\* a failure is caught at line 349 and the restoration ends
RestoreFind(W) ==
  /\ Running
  /\ mon.pc = "restore"
  /\ \E okR \in W :
       IF okR /\ ActiveSeq # <<>>
       THEN mon' = [MonIdle EXCEPT !.pc = "rfound", !.todo = ActiveSeq,
                      !.snap = [n \in Names |->
                                  IF cam[n].active
                                  THEN [active |-> TRUE, streaming |-> cam[n].streaming,
                                        processId |-> cam[n].processId]
                                  ELSE MonIdle.snap[n]]]
       ELSE mon' = [MonIdle EXCEPT !.pc = "rdone"]
  /\ ev' = NoEv
  /\ UNCHANGED <<processes, proc, isShuttingDown, stopAllPc, cam, watch, calm, auto, streamMonitor>>

\* StreamMonitor.js 270: the loop starts with the first camera
RestoreLoop(W, H) ==
  /\ Running
  /\ mon.pc = "rfound"
  /\ RestoreVisit(mon, W, H)
  /\ UNCHANGED <<isShuttingDown, stopAllPc, calm, streamMonitor>>

\* StreamMonitor.js 297-321: 5 s after the start resolved (the timer is set
\* after the 15 s timer of the call fired, so the 17 s validation timer of
\* the call has fired) the stream is checked and the outcome is saved
RestoreRecheck(W) ==
  /\ Running
  /\ mon.pc = "rresolved"
  /\ IF mon.wait = Stale THEN TRUE ELSE TimerRank(proc[mon.wait].tpc) >= 3
  /\ LET n == Head(mon.todo)
     IN  RestoreSave(mon, PurgeDead(processes, {n}), isStreamRunning(n),
                     IF isStreamRunning(n) THEN processes[n] ELSE NoProc, W, "rdelay")
  /\ UNCHANGED <<isShuttingDown, stopAllPc, calm, streamMonitor>>

\* StreamMonitor.js 325-332: the catch of the camera in hand (its start was
\* rejected or a save was): streaming=false is saved; a failure of this
\* save leaves the loop for the catch of line 349 and ends the restoration
\* with the cameras that were not reached left in todo
RestoreCatch(W) ==
  /\ Running
  /\ mon.pc \in {"rrejected", "rthrown"}
  /\ \E okW \in W :
       CommitM(proc, processes,
               IF okW THEN SaveDoc(cam, Head(mon.todo), mon.snap, FALSE, NoProc) ELSE cam,
               IF okW THEN [mon EXCEPT !.pc = "rcaught"]
               ELSE [mon EXCEPT !.pc = "rdone", !.todo = Tail(@)])
  /\ ev' = NoEv
  /\ UNCHANGED <<isShuttingDown, stopAllPc, calm, streamMonitor>>

\* StreamMonitor.js 288, 323, 332-347: the save has returned (and, after a
\* start, the 2 s delay of line 323 has passed): the next camera, or
\* getActiveStreams() and the end of the restoration
RestoreNext(W, H) ==
  /\ Running
  /\ mon.pc \in {"rnext", "rdelay", "rcaught"}
  /\ IF Tail(mon.todo) = <<>>
     THEN /\ CommitM(proc, PurgeDead(processes, Names), cam,
                     [mon EXCEPT !.pc = "rdone", !.todo = <<>>])
          /\ ev' = NoEv
     ELSE RestoreVisit([mon EXCEPT !.todo = Tail(@)], W, H)
  /\ UNCHANGED <<isShuttingDown, stopAllPc, calm, streamMonitor>>

\* the restoration with the supervisor; the monitor is started only when
\* restoreStreams has returned (server.js 138-142)
NextRestore ==
  \/ \E p \in Procs : ProcessDies(p)
  \/ \E p \in Procs : ErrorHandlerFinish(p)
  \/ \E p \in Procs : HandleCheck(p)
  \/ \E p \in Procs : FallbackTimeout(p)
  \/ \E p \in Procs : ValidationTimer(p, BOOLEAN)
  \/ \E p \in Procs : ProbeDone(p, BOOLEAN)
  \/ \E p \in Procs : ExitHandler(p, BOOLEAN)
  \/ \E p \in Procs : ExitHandlerFinish(p)
  \/ \E p \in Procs : RestartTimer(p, BOOLEAN, BOOLEAN)
  \/ RestoreFind(BOOLEAN)
  \/ RestoreLoop(BOOLEAN, BOOLEAN)
  \/ RestoreRecheck(BOOLEAN)
  \/ RestoreCatch(BOOLEAN)
  \/ RestoreNext(BOOLEAN, BOOLEAN)

SpecRestore == InitRestore /\ [][NextRestore]_vars

\* the restoration while the registry answers every query and every write
NextRestoreUp ==
  \/ \E p \in Procs : ProcessDies(p)
  \/ \E p \in Procs : ErrorHandlerFinish(p)
  \/ \E p \in Procs : HandleCheck(p)
  \/ \E p \in Procs : FallbackTimeout(p)
  \/ \E p \in Procs : ValidationTimer(p, {TRUE})
  \/ \E p \in Procs : ProbeDone(p, {TRUE})
  \/ \E p \in Procs : ExitHandler(p, {TRUE})
  \/ \E p \in Procs : ExitHandlerFinish(p)
  \/ \E p \in Procs : RestartTimer(p, {TRUE}, BOOLEAN)
  \/ RestoreFind({TRUE})
  \/ RestoreLoop({TRUE}, BOOLEAN)
  \/ RestoreRecheck({TRUE})
  \/ RestoreCatch({TRUE})
  \/ RestoreNext({TRUE}, BOOLEAN)

SpecRestoreUp == InitRestore /\ [][NextRestoreUp]_vars

\* ------------------------------------------------- the start of the server
\* server.js 118-155: the restoration and then the monitor.  The registry
\* answers, except that a save of the restoration may fail; every spawn of
\* the monitor obtains a process
NextStartup ==
  \/ \E p \in Procs : ProcessDies(p)
  \/ \E p \in Procs : ErrorHandlerFinish(p)
  \/ \E p \in Procs : HandleCheck(p)
  \/ \E p \in Procs : FallbackTimeout(p)
  \/ \E p \in Procs : ValidationTimer(p, {TRUE})
  \/ \E p \in Procs : ProbeDone(p, {TRUE})
  \/ \E p \in Procs : ExitHandler(p, {TRUE})
  \/ \E p \in Procs : ExitHandlerFinish(p)
  \/ \E p \in Procs : RestartTimer(p, {TRUE}, {TRUE})
  \/ RestoreFind({TRUE})
  \/ RestoreLoop({TRUE}, BOOLEAN)
  \/ RestoreRecheck(BOOLEAN)
  \/ RestoreCatch(BOOLEAN)
  \/ RestoreNext({TRUE}, BOOLEAN)
  \/ MonitorStart
  \/ MonTick({TRUE})
  \/ InitialCheck({TRUE})
  \/ MonVisit({TRUE}, {TRUE})
  \/ MonRecheck({TRUE})
  \/ MonSaved({TRUE}, {TRUE})

SpecStartup == InitRestore /\ [][NextStartup]_vars

\* ---------------------------------------------- the shutdown of the server
\* server.js 169-218: the monitor is running and a shutdown is requested;
\* the registry answers and every spawn obtains a process
NextShutdown ==
  \/ \E p \in Procs : ProcessDies(p)
  \/ \E p \in Procs : FallbackTimeout(p)
  \/ \E p \in Procs : ValidationTimer(p, {TRUE})
  \/ \E p \in Procs : ProbeDone(p, {TRUE})
  \/ \E p \in Procs : ExitHandler(p, {TRUE})
  \/ \E p \in Procs : ExitHandlerFinish(p)
  \/ \E p \in Procs : RestartTimer(p, {TRUE}, {TRUE})
  \/ MonTick({TRUE})
  \/ InitialCheck({TRUE})
  \/ MonVisit({TRUE}, {TRUE})
  \/ MonRecheck({TRUE})
  \/ MonSaved({TRUE}, {TRUE})
  \/ GracefulShutdown({TRUE})
  \/ StopAllFinish

SpecShutdown == Init /\ [][NextShutdown]_vars

\* ------------------------------------------- automatic restarts in a row
\* as Init, with an observer that counts the automatic restarts of each name
InitAuto ==
  /\ processes = [n \in Names |-> NoProc]
  /\ proc = <<>>
  /\ isShuttingDown = FALSE
  /\ stopAllPc = "idle"
  /\ cam = [n \in Names |-> [active |-> (n = "cam_1"), rtspUrl |-> "rtsp://src/a",
                             streaming |-> FALSE, processId |-> NoProc]]
  /\ ev = NoEv
  /\ watch = NoProc
  /\ auto = [n \in Names |-> 0]
  /\ mon = MonIdle
  /\ calm = FALSE
  /\ streamMonitor = MonitorStarted

\* explicit starts and the supervisor while the registry answers
NextAuto ==
  \/ \E n \in Names : ApiStart(n, {TRUE}, BOOLEAN)
  \/ \E p \in Procs : ErrorHandlerFinish(p)
  \/ \E p \in Procs : HandleCheck(p)
  \/ \E p \in Procs : FallbackTimeout(p)
  \/ \E p \in Procs : ValidationTimer(p, {TRUE})
  \/ \E p \in Procs : ProbeDone(p, {TRUE})
  \/ \E p \in Procs : ProcessDies(p)
  \/ \E p \in Procs : ExitHandler(p, {TRUE})
  \/ \E p \in Procs : ExitHandlerFinish(p)
  \/ \E p \in Procs : RestartTimer(p, {TRUE}, BOOLEAN)

SpecAuto == InitAuto /\ [][NextAuto]_vars

\* ------------------------------------ the registry changes under the supervisor
\* the source URIs a record may hold
Sources == {"rtsp://src/a", "rtsp://src/b"}

\* the route layer stores another source URI in the record of n (the
\* registry is a store the supervisor only reads rtspUrl from)
SourceChanges(n) ==
  /\ \E u \in Sources \ {cam[n].rtspUrl} : cam' = [cam EXCEPT ![n].rtspUrl = u]
  /\ ev' = NoEv
  /\ UNCHANGED <<processes, proc, isShuttingDown, stopAllPc, watch, mon, calm, auto, streamMonitor>>

\* camera.js 563-564 (PUT /:id/activate): the record is saved with active = true
Activate(n) ==
  /\ ~cam[n].active
  /\ cam' = [cam EXCEPT ![n].active = TRUE]
  /\ ev' = NoEv
  /\ UNCHANGED <<processes, proc, isShuttingDown, stopAllPc, watch, mon, calm, auto, streamMonitor>>

\* explicit starts of cam_1 and the supervisor, while the record of cam_1
\* is changed in the registry
NextSrc ==
  \/ ApiStart("cam_1", {TRUE}, {TRUE})
  \/ SourceChanges("cam_1")
  \/ Deactivate("cam_1")
  \/ Activate("cam_1")
  \/ \E p \in Procs : FallbackTimeout(p)
  \/ \E p \in Procs : ValidationTimer(p, {TRUE})
  \/ \E p \in Procs : ProbeDone(p, {TRUE})
  \/ \E p \in Procs : ProcessDies(p)
  \/ \E p \in Procs : ExitHandler(p, {TRUE})
  \/ \E p \in Procs : ExitHandlerFinish(p)
  \/ \E p \in Procs : RestartTimer(p, BOOLEAN, {TRUE})

SpecSrc == Init /\ [][NextSrc]_vars

\* ------------------------------------- the core beside the route layer
\* the server starts with the registry of Init (cam_1 is the active camera)
InitServer ==
  /\ processes = [n \in Names |-> NoProc]
  /\ proc = <<>>
  /\ isShuttingDown = FALSE
  /\ stopAllPc = "idle"
  /\ cam = [n \in Names |-> [active |-> (n = "cam_1"), rtspUrl |-> "rtsp://src/a",
                             streaming |-> FALSE, processId |-> NoProc]]
  /\ ev = NoEv
  /\ watch = NoProc
  /\ auto = << >>
  /\ mon = [MonIdle EXCEPT !.pc = "restore"]
  /\ calm = FALSE
  /\ streamMonitor = MonitorNew

\* the supervisor and the convergence loop from the start of the server to
\* its shutdown (starts by the restoration, the monitor and the restart
\* timer, stops by stopAll), while the route layer changes rtspUrl and
\* clears active in the record of cam_1; the registry answers and every
\* spawn obtains a process
NextCore ==
  \/ \E p \in Procs : FallbackTimeout(p)
  \/ \E p \in Procs : ValidationTimer(p, {TRUE})
  \/ \E p \in Procs : ProbeDone(p, {TRUE})
  \/ \E p \in Procs : ProcessDies(p)
  \/ \E p \in Procs : ExitHandler(p, {TRUE})
  \/ \E p \in Procs : ExitHandlerFinish(p)
  \/ \E p \in Procs : RestartTimer(p, {TRUE}, {TRUE})
  \/ RestoreFind({TRUE})
  \/ RestoreLoop({TRUE}, {TRUE})
  \/ RestoreRecheck({TRUE})
  \/ RestoreNext({TRUE}, {TRUE})
  \/ MonitorStart
  \/ MonTick({TRUE})
  \/ MonVisit({TRUE}, {TRUE})
  \/ MonRecheck({TRUE})
  \/ MonSaved({TRUE}, {TRUE})
  \/ GracefulShutdown({TRUE})
  \/ StopAllFinish
  \/ SourceChanges("cam_1")
  \/ Deactivate("cam_1")

SpecCore == InitServer /\ [][NextCore]_vars

\* ------------------------------------------------------------------ claims
\* C1: a start of a name issued after an earlier start of that name has
\* fully resolved, while that start's process is alive (and was never sent
\* a termination signal), spawns no process: it returns the public URL.
C1_SequentialStartSpawnsNothing == ev.op = "startSpawn" => ev.ret = <<FALSE>>

\* C2: after an explicit stop of a job its exit handler schedules no
\* automatic restart: no process that stopStream signalled has a restart
\* timer pending.
C2_StopIsTerminal == \A p \in Procs : Killed(p) => proc[p].hpc # "timer"

\* C3: once stop(name) has returned true, and as long as no later start of
\* the name has spawned a process, isStreamRunning(name) is false and the
\* registry's streaming field of the name is false.
C3_StoppedMeansNotStreaming ==
  \A p \in Procs :
    proc[p].spc = "returned" /\ Newest(p)
      => ~isStreamRunning(proc[p].name) /\ ~cam[proc[p].name].streaming

\* C4: when stopAll() returns, getActiveStreams() is empty and no process
\* of a job that was in the table when stopAll was called is still running.
C4_StopAllLeavesNothingRunning ==
  ev.op = "stopAllReturn" => getActiveStreams = {} /\ ev.ret[1] = FALSE

\* C5: once the shutdown flag is set, no restart timer re-invokes start.
C5_NoRestartOnceShuttingDown ==
  isShuttingDown /\ ev.who = "restart" => ev.op \notin {"startSpawn", "startDedup"}

\* C6: a job that was not validated when its exit notification arrived gets
\* no restart timer.
C6_UnvalidatedExitNotRestarted ==
  \A p \in Procs : proc[p].hpc = "timer" => proc[p].exitVal

C7_TimerInv ==
  \A p \in Procs :
    proc[p].hpc = "timer" =>
      /\ proc[p].isValidated
      /\ proc[p].restartCount = 0
      /\ proc[p].delay = retryDelay(proc[p].restartCount)

\* the exit handler of a validated job that decides while the supervisor is
\* not shutting down and restartCount is below the maximum sets the timer
C7_Decision ==
  \A p \in Procs :
    ( /\ ExitHandlerFinish(p)
      /\ ~isShuttingDown
      /\ proc[p].isValidated
      /\ proc[p].restartCount < maxRetries )
    => /\ Len(proc') >= p
       /\ proc'[p].hpc = "timer"
       /\ proc'[p].delay = retryDelay(proc[p].restartCount)

\* a fired restart timer skips the start only when the registry lookup
\* failed or the camera is not active
C7_Fired ==
  ev.who = "restart" =>
    \/ ev.op \in {"startSpawn", "startDedup", "restartFailed"}
    \/ ev.op = "restartSkipped" /\ ~cam[ev.n].active

C7_TimerPending == \E p \in Procs : proc[p].hpc = "timer"

C8_EventualConvergence ==
  \A n \in Names :
    (calm /\ cam[n].active) ~> (isStreamRunning(n) /\ cam[n].streaming)

\* the environment is calm, the start the monitor issued for a stream it
\* found down has resolved, the stream is running and shown as streaming
C8_Witness ==
  /\ calm
  /\ mon.pc = "resolved"
  /\ isStreamRunning(Head(mon.todo))
  /\ cam[Head(mon.todo)].streaming

\* every call has settled at most once, with the public URL or the start
\* failure; past the 15 s ceiling it has settled and validated is as it was
C9_Inv ==
  \A p \in Procs :
    /\ proc[p].settles <= 1
    /\ (proc[p].settles = 1) <=> (proc[p].result # <<>>)
    /\ proc[p].result \in {<<>>, getPublicUrl(proc[p].name), StartFailure}
    /\ proc[p].tpc \in {"t17", "probe"} => proc[p].settles = 1 /\ ~proc[p].isValidated
    /\ proc[p].tpc = "done" => proc[p].settles = 1

\* the call the observer follows has not settled
C9_WatchedPending == watch # NoProc /\ proc[watch].settles = 0

\* C9: every start call settles exactly once, with the public URL or with
\* the start failure, and it does settle: whichever call the observer
\* follows, it is eventually settled (or the Node process has ended and the
\* call with it).  When the ceiling settles it, validated is left as it was.
C9_StartSettlesOnce ==
  /\ []C9_Inv
  /\ (C9_WatchedPending ~> ~C9_WatchedPending)

\* the ceiling made the followed start return although its process had exited
C9_Witness ==
  /\ watch # NoProc
  /\ proc[watch].tpc = "t17" /\ proc[watch].os = "dead"
  /\ proc[watch].result = getPublicUrl(proc[watch].name)

\* C10: start fails only for a process that never had an OS handle, and
\* then it does fail; every other settled start, and every deduplicated
\* one, returned getPublicUrl(streamName).
C10_FailsOnlyWithoutHandle ==
  /\ \A p \in Procs :
       proc[p].settles > 0 =>
         proc[p].result = IF HasPid(p) THEN getPublicUrl(proc[p].name) ELSE StartFailure
  /\ ev.op = "startDedup" => ev.ret = getPublicUrl(ev.n)

\* a start returned the URL although its process failed the re-verification
C10_Witness ==
  \E p \in Procs : /\ HasPid(p) /\ proc[p].tpc = "done" /\ ~proc[p].isValidated
                   /\ proc[p].result = getPublicUrl(proc[p].name)

\* a start whose process has no OS handle fails, and the table never holds
\* its job once the error notification has been delivered
C11_Inv ==
  /\ \A n \in Names : processes[n] # NoProc => HasPid(processes[n])
  /\ \A p \in Procs :
       ~HasPid(p) /\ proc[p].tpc = "done"
         => proc[p].settles = 1 /\ proc[p].result = StartFailure

\* the handle check of a process without a handle leaves no entry of the name
C11_Check ==
  \A p \in Procs : HandleCheck(p) => processes'[proc[p].name] = NoProc

\* C11: if the spawned process has no OS handle at the initial handle
\* check, the start fails with the start failure and no job of that stream
\* name is left in the live-job table.
C11_NoHandleFailsUnregistered == []C11_Inv /\ [][C11_Check]_vars

\* the handle check has run for a process without a handle while the error
\* handler still awaits its write: the start has failed, the table is empty
C11_Witness ==
  \E p \in Procs : /\ ~HasPid(p) /\ proc[p].tpc = "done"
                   /\ proc[p].result = StartFailure
                   /\ processes[proc[p].name] = NoProc

\* the table holds an entry of n whose process has a handle and is alive
LiveEntry(n) == processes[n] # NoProc /\ proc[processes[n]].os = "alive"

\* C12: isStreamRunning(name) returns true exactly when the table holds an
\* entry of name whose OS process is alive; an entry whose process is dead
\* makes it return false and is removed; nothing else in the table changes.
C12_RunningIsOsTruth ==
  [][\A n \in Names :
       IsRunningCall(n) =>
         /\ ev'.ret = <<LiveEntry(n)>>
         /\ processes[n] # NoProc /\ ~LiveEntry(n) => processes'[n] = NoProc
         /\ LiveEntry(n) => processes'[n] = processes[n]
         /\ \A k \in Names \ {n} : processes'[k] = processes[k]]_vars

\* the check found the entry of a dead process, returned false and purged it
C12_Witness ==
  /\ ev.op = "isStreamRunning" /\ ev.ret = <<FALSE>>
  /\ processes[ev.n] = NoProc
  /\ \E p \in Procs : proc[p].name = ev.n /\ proc[p].os = "dead" /\ proc[p].hpc = "none"

\* C13: getActiveStreams() returns only names whose entry has a live OS
\* process, and after the call the table holds no entry whose process is
\* dead or has no handle.
C13_ActiveStreamsAreLive ==
  [][ActiveStreamsCall =>
       /\ \A i \in 1..Len(ev'.ret) : LiveEntry(ev'.ret[i])
       /\ \A n \in Names :
            processes'[n] # NoProc => proc'[processes'[n]].os = "alive"]_vars

\* the call returned nothing and purged the entry of a process that had died
C13_Witness ==
  /\ ev.op = "getActiveStreams" /\ ev.ret = <<>>
  /\ \E p \in Procs : /\ proc[p].os = "dead" /\ proc[p].hpc = "none"
                       /\ ~Killed(p) /\ processes[proc[p].name] = NoProc

\* C14: stop(name) without a job of name returns false and changes neither
\* the table, nor a process, nor the registry.
C14_StopWithoutJobIsNoOp ==
  [][\A n \in Names :
       StopFalse(n) => ev'.ret = <<FALSE>> /\ UNCHANGED <<processes, proc, cam>>]_vars

\* stop returned false for a name without an entry whose registry record
\* shows streaming, and the record still shows it
C14_Witness ==
  /\ ev.op = "stopStream" /\ ev.ret = <<FALSE>>
  /\ processes[ev.n] = NoProc
  /\ cam[ev.n].streaming

\* C16: getPublicUrl(name) returns {relay-public-base}/{name} in every
\* state, whether or not a job of the name exists, and changes no state.
C16_PublicUrlIsPure ==
  /\ [](ev.op = "getPublicUrl" => ev.ret = <<"http", "cctv.thabir.ai", 8888, ev.n>>)
  /\ [][\A n \in Names :
         PublicUrlCall(n) =>
           UNCHANGED <<processes, proc, isShuttingDown, stopAllPc, cam>>]_vars

\* the URL of a name was returned while the name had a job, and the URL of
\* a name that never had one
C16_Witness ==
  /\ ev.op = "getPublicUrl"
  /\ ev.n = "cam_2"
  /\ processes["cam_2"] = NoProc /\ processes["cam_1"] # NoProc

\* C15: the OS process of a stopped job terminates: when the Node process
\* ends (and its SIGKILL timers with it), no process that a stop sent
\* SIGTERM to is still running.
C15_StoppedProcessTerminates == ev.op = "stopAllReturn" => ev.ret[2] = FALSE

\* what the registry shows of the camera in hand once the pass has assigned
\* streaming = want and saved: a value equal to the one read at the start
\* of the pass is not written
C17_Saved(want) ==
  LET n == Head(mon.todo)
  IN  IF want = mon.snap[n].streaming THEN cam[n].streaming ELSE want

\* the pass starts the active camera it finds not running, from the
\* registry's source URI
C17_Start ==
  MonVisit(Wc, Hc) /\ ~isStreamRunning(Head(mon.todo))
    => /\ ev'.op = "startSpawn" /\ ev'.who = "monitor" /\ ev'.n = Head(mon.todo)
       /\ proc'[Len(proc')].name = Head(mon.todo)
       /\ proc'[Len(proc')].rtspSource = cam[Head(mon.todo)].rtspUrl
       /\ mon'.pc \in {"start", "rejected"}

\* the outcome the pass saves after the start
C17_Write ==
  /\ MonRecheck(Wc) /\ mon'.pc = "saveR"
       => cam'[Head(mon.todo)].streaming = C17_Saved(isStreamRunning(Head(mon.todo)))
  /\ MonRejected(Wc) /\ mon'.pc = "saveF"
       => cam'[Head(mon.todo)].streaming = C17_Saved(FALSE)

C18_Range(q) == {q[i] : i \in 1..Len(q)}

\* a step of the periodic check
C18_CheckStep ==
  \/ MonTick({TRUE})
  \/ MonVisit({TRUE}, {TRUE})
  \/ MonRecheck({TRUE})
  \/ MonSaved({TRUE}, {TRUE})

\* C18 as the specification states it: a step of the check leaves the
\* table entry and the processes of every camera that the pass read as
\* active = false as they are.
C18_InactiveUntouched ==
  [][C18_CheckStep =>
       \A n \in Names :
         mon.pc # "idle" /\ ~mon.snap[n].active =>
           /\ processes'[n] = processes[n]
           /\ \A p \in Procs : proc[p].name = n => proc'[p] = proc[p]]_vars

\* a pass works on the cameras its query returned as active, one after the
\* other
C18_Pass ==
  /\ MonTick({TRUE}) => \A n \in Names : ~cam[n].active => n \notin C18_Range(mon'.todo)
  /\ mon.pc # "idle" /\ mon'.pc # "idle" => mon'.todo \in {mon.todo, Tail(mon.todo)}
  /\ mon'.pc # "idle" => \A n \in C18_Range(mon'.todo) : mon'.snap[n].active

\* a step of the check signals no process, and the only thing it does to the
\* entry of a camera that is not the one in hand is to purge it when its
\* process is dead
C18_Frame ==
  C18_CheckStep =>
    /\ \A p \in Procs : proc'[p] = proc[p]
    /\ \A n \in Names \ (C18_Range(mon.todo) \cup C18_Range(mon'.todo)) :
         \/ processes'[n] = processes[n]
         \/ /\ processes[n] # NoProc /\ proc[processes[n]].os = "dead"
            /\ processes'[n] = NoProc

\* C18, amended: the periodic check never stops or kills a process, and for
\* a camera its query returned as active = false it never starts a stream
\* and never removes the entry of a running job; the only change it makes
\* for such a camera is that getActiveStreams() at the end of the pass
\* purges a table entry whose process is already dead.
C18_InactiveOnlyPurged == [][C18_Pass /\ C18_Frame]_vars

\* a pass whose query returned cam_2 as inactive has worked on cam_1 while
\* the stream of cam_2 is running
C18_Witness ==
  /\ mon.pc \in {"save", "saveR"}
  /\ mon.todo = <<"cam_1">>
  /\ ~mon.snap["cam_2"].active
  /\ isStreamRunning("cam_2")

\* C19: the startup restoration, run against N active records and no live
\* job, makes exactly N start calls, one per record, and begins none of
\* them before the start call it made before has settled.
\* a step in which the restoration calls startStream
C19_Start == ev'.who = "restore"

\* a step in which the restoration goes on after a find or a camera
C19_Goes ==
  mon.pc \in {"rfound", "rnext", "rdelay", "rcaught"} /\ mon'.pc # mon.pc

\* the call is for the record in hand, and the call made before has settled
C19_Serialized ==
  C19_Start => /\ ev'.n = Head(mon'.todo)
               /\ mon.wait \in Procs => proc[mon.wait].settles > 0

\* the restoration ends only with the last record, and each record it
\* takes in hand is started
C19_EachRecord ==
  C19_Goes /\ mon'.pc # "rdone"
    => C19_Start /\ mon'.todo = IF mon.pc = "rfound" THEN mon.todo ELSE Tail(mon.todo)

C19_NoneLeft == mon.pc = "rdone" => mon.todo = <<>>

\* each record reached is started once, and the starts do not overlap
C19_SerializedStarts == [][C19_Serialized /\ C19_EachRecord]_vars

C19_ExactlyNSerializedStarts == []C19_NoneLeft /\ C19_SerializedStarts

\* C20: when the startup restoration finishes, every active camera it
\* processed is in the table with a validated job or has streaming=false
\* in the registry: none has streaming=true with a job that is not validated.
\* the step in which restoreStreams returns
C20_Finishes == mon.pc # "rdone" /\ mon'.pc = "rdone"

\* the finished restoration found n and reached it
C20_Processed(n) ==
  mon'.snap[n].active /\ \A i \in 1..Len(mon'.todo) : mon'.todo[i] # n

C20_ValidatedOrFlagged ==
  [][C20_Finishes =>
       \A n \in Names :
          C20_Processed(n) =>
            \/ processes'[n] # NoProc /\ proc'[processes'[n]].isValidated
            \/ ~cam'[n].streaming]_vars

\* C21: the startup restoration tolerates the failure of one camera (its
\* start is rejected, or saving its outcome fails): it goes on with the next
\* camera, so every active record is attempted and the batch is never
\* aborted part-way.
\* the restoration leaves the failure of the camera in hand behind
C21_Fails == mon.pc \in {"rrejected", "rthrown"} /\ mon'.pc # mon.pc

\* after a failure the loop is still running, with the same cameras to do
C21_GoesOn == C21_Fails => mon'.pc = "rcaught" /\ mon'.todo = mon.todo

\* the camera after a failed one is taken in hand and started
C21_NextAttempted ==
  mon.pc = "rcaught" /\ mon'.pc # mon.pc /\ Tail(mon.todo) # <<>>
    => mon'.todo = Tail(mon.todo) /\ ev'.who = "restore" /\ ev'.n = Head(mon'.todo)

C21_ToleratesFailure == [][C21_GoesOn /\ C21_NextAttempted]_vars

\* C22: two start calls of one name that are in flight together can leave
\* two encoder processes of that name: a start spawns a second process
\* while an earlier start of the name has not settled whenever the table
\* holds no entry of the name with a live process (the entry was deleted,
\* or its process is dead or has no handle); with such an entry it spawns
\* nothing and returns the public URL.
\* a start of the name n is in flight
C22_InFlight(n) == \E p \in Procs : proc[p].name = n /\ proc[p].settles = 0

C22_SpawnsBesideInFlight ==
  ev'.op = "startSpawn" /\ C22_InFlight(ev'.n) => ~Deduped(ev'.n)

C22_ReturnsUrl ==
  ev'.op = "startDedup" =>
    /\ Deduped(ev'.n)
    /\ ev'.ret = getPublicUrl(ev'.n)
    /\ Len(proc') <= Len(proc)

C22_ConcurrentStartsCanDoubleSpawn ==
  [][C22_SpawnsBesideInFlight /\ C22_ReturnsUrl]_vars

\* two starts of one name are in flight, each with its own live encoder
\* process that no stop has signalled
C22_Witness ==
  \E p \in Procs : \E q \in Procs :
    /\ p < q /\ proc[p].name = proc[q].name
    /\ proc[p].settles = 0 /\ proc[q].settles = 0
    /\ proc[p].os = "alive" /\ proc[q].os = "alive"
    /\ ~Killed(p) /\ ~Killed(q)
    /\ ev.op = "startSpawn" /\ ev.n = proc[q].name

\* C23: the restartCount of a job does not go back to zero across automatic
\* restarts of its name: the job an automatic restart has just spawned and
\* registered carries the count of restarts made so far, which is at least 1.
C23_RestartCountCarried ==
  ev.op = "startSpawn" /\ ev.who = "restart" /\ processes[ev.n] # NoProc
    => proc[processes[ev.n]].restartCount >= 1

\* C24: the delay before the n-th automatic restart in a row of a stream is
\* min(2000 * 1.5^n, 30000) ms: when the exit handler of the newest job of
\* a name schedules a restart, n restarts in a row having been made for the
\* name, the timer is set to retryDelay(n).
C24_Schedules(p) ==
  /\ proc[p].hpc = "exitAwait"
  /\ Newest(p)
  /\ p \in DOMAIN proc'
  /\ proc'[p].hpc = "timer"

C24_BackoffFollowsAttempt ==
  [][\A p \in Procs :
       C24_Schedules(p) /\ auto[proc[p].name] < MaxAuto
         => proc'[p].delay = retryDelay(auto[proc[p].name])]_vars

\* C25: for a stream that keeps exiting after validation, the exit handler
\* makes at most maxRetries (10) automatic restarts in a row; after that
\* nothing further is scheduled.
C25_AtMostMaxRetries == \A n \in DOMAIN auto : auto[n] <= maxRetries

\* C26: when the restart timer of an exit handler fires, startStream is
\* called only if the registry holds the record of the name with
\* active=true at that moment, and with the source URI the record holds at
\* that moment; for an inactive record nothing is spawned.
\* the step is the firing of a restart timer
C26_Fires == ev'.who = "restart"

C26_OnlyIfActive ==
  C26_Fires =>
    IF cam[ev'.n].active
    THEN ev'.op \in {"startSpawn", "startDedup", "restartFailed"}
    ELSE ev'.op \in {"restartSkipped", "restartFailed"} /\ Len(proc') <= Len(proc)

C26_CurrentSource ==
  C26_Fires /\ ev'.op = "startSpawn" =>
    proc'[Len(proc')].rtspSource = cam[ev'.n].rtspUrl

C26_RestartReadsRegistry == [][C26_OnlyIfActive /\ C26_CurrentSource]_vars

\* an automatic restart has spawned a job with the source the registry
\* holds now, which is not the one the record was created with
C26_Witness ==
  /\ ev.op = "startSpawn" /\ ev.who = "restart"
  /\ cam[ev.n].rtspUrl = "rtsp://src/b"
  /\ processes[ev.n] # NoProc
  /\ proc[processes[ev.n]].rtspSource = "rtsp://src/b"

\* C27: a job whose process has a handle and is alive and registered when
\* the validation timer fires is eventually marked validated and the
\* registry gets streaming=true with its process id, whatever the relay
\* probe answered (as long as the Node process runs and the registry
\* answers): the probe it waits for returns, and when it has returned the
\* job is validated and the record written.
\* the jobs of n that wait for the relay probe
C27_Probes(pr, n) == {q \in DOMAIN pr : pr[q].name = n /\ pr[q].tpc = "probe"}

C27_Returned(n) ==
  /\ Cardinality(C27_Probes(proc', n)) < Cardinality(C27_Probes(proc, n))
  /\ stopAllPc' # "done"

C27_Marked(n) ==
  /\ cam'[n].streaming
  /\ cam'[n].processId # NoProc
  /\ cam'[n].processId # Stale =>
        /\ proc'[cam'[n].processId].name = n
        /\ proc'[cam'[n].processId].isValidated

C27_WatchedProbes == watch # NoProc /\ proc[watch].tpc = "probe"

C27_EventuallyValidated ==
  /\ [][\A n \in Names : C27_Returned(n) => C27_Marked(n)]_vars
  /\ (C27_WatchedProbes ~> ~C27_WatchedProbes)

\* the job the observer follows has been validated with its process alive
\* and the registry shows it streaming
C27_Witness ==
  /\ watch # NoProc
  /\ proc[watch].isValidated /\ proc[watch].os = "alive"
  /\ cam[proc[watch].name].streaming
  /\ cam[proc[watch].name].processId = watch

\* C28: from the exit of a job's process until a replacement job of that
\* name has been validated the registry's streaming stays false: a step that
\* turns streaming from false to true for a name leaves a validated job of
\* that name whose process has not been seen to exit.
C28_TurnsTrue(n) == ~cam[n].streaming /\ cam'[n].streaming

C28_ValidatedRunning(n) ==
  \E q \in DOMAIN proc' :
    /\ proc'[q].name = n
    /\ proc'[q].isValidated
    /\ proc'[q].hpc = "none"

C28_FalseUntilValidated ==
  [][\A n \in Names : C28_TurnsTrue(n) => C28_ValidatedRunning(n)]_vars

\* C29: the validation timers of a job that was removed from the live-job
\* table after its handle check are no-ops when they fire: the step in which
\* one fires leaves the table entry of the name and the registry's
\* streaming and processId of the name as they were, also when a newer job
\* of the name has been started meanwhile.
\* the jobs of n that are out of the table with timer t still to fire
C29_Pending(pr, tab, n, t) ==
  {q \in DOMAIN pr : pr[q].name = n /\ pr[q].tpc = t /\ tab[n] # q}

C29_Fires(n) ==
  /\ stopAllPc' # "done"
  /\ \E t \in {"t15", "t17"} :
       Cardinality(C29_Pending(proc', processes', n, t))
         < Cardinality(C29_Pending(proc, processes, n, t))

C29_Same(n) ==
  /\ cam'[n].streaming = cam[n].streaming
  /\ (cam'[n].processId = NoProc) = (cam[n].processId = NoProc)
  /\ (processes'[n] = NoProc) = (processes[n] = NoProc)
  /\ Len(proc') = Len(proc) =>
        /\ cam'[n].processId = cam[n].processId
        /\ processes'[n] = processes[n]

C29_RemovedJobTimersNoOp ==
  [][\A n \in Names : C29_Fires(n) => C29_Same(n)]_vars

\* C30: a registry write that fails never blocks or fails the operation it
\* accompanies: a start whose validation has run to its end has returned to
\* its caller whatever became of the write, and the startup restoration, when
\* a save of the camera in hand has failed, does not end while cameras remain.
C30_StartReturned ==
  \A p \in Procs : proc[p].tpc = "done" => proc[p].settles >= 1

C30_SaveFailed == mon.pc = "rthrown"

C30_PassGoesOn ==
  C30_SaveFailed /\ mon'.pc # mon.pc /\ Tail(mon.todo) # <<>> => mon'.pc # "rdone"

C30_WriteFailureSwallowed == []C30_StartReturned /\ [][C30_PassGoesOn]_vars

\* C31: when the supervisor is notified that the process of a job exited,
\* the job is out of the live-job table after that very step, and (the
\* registry answering) the record of the name reads streaming=false,
\* processId=null.
\* the jobs of n whose exit handler has run up to its registry write
C31_Handling(pr, n) == {q \in DOMAIN pr : pr[q].name = n /\ pr[q].hpc = "exitAwait"}

C31_Notified(n) ==
  Cardinality(C31_Handling(proc', n)) > Cardinality(C31_Handling(proc, n))

C31_ExitRemovesAndClears ==
  [][\A n \in Names :
       C31_Notified(n) => /\ processes'[n] = NoProc
                          /\ ~cam'[n].streaming
                          /\ cam'[n].processId = NoProc]_vars

\* the exit of a validated job has been handled: the table has no entry of
\* the name and the registry shows it not streaming
C31_Witness ==
  \E p \in Procs :
    /\ proc[p].hpc = "exitAwait" /\ proc[p].exitVal
    /\ processes[proc[p].name] = NoProc
    /\ ~cam[proc[p].name].streaming

\* C33: when the periodic check finds the stream of an active camera
\* running, then after that camera has been processed (its save succeeded)
\* the registry record has streaming=true and the processId of the job in
\* the live-job table.
\* the check takes camera n in hand, finds it running and saves the record
C33_FoundRunning(n) ==
  /\ mon.pc \in {"found", "save", "saveR", "saveF"}
  /\ mon'.pc = "save"
  /\ mon'.todo # <<>> /\ Head(mon'.todo) = n
  /\ mon.pc = "found" \/ mon'.todo = Tail(mon.todo)
  /\ isStreamRunning(n)

C33_RunningIsRecorded ==
  [][\A n \in Names :
       C33_FoundRunning(n) => cam'[n].streaming /\ cam'[n].processId = processes'[n]]_vars

\* C35: the cleanup that one encoder process triggers (its exit
\* notification, its spawn error, its failed handle check) removes only the
\* job of that process: no step takes out of the live-job table the entry
\* of a job whose process is alive and was not sent a termination signal,
\* while that process stays alive and unsignalled.
\* the jobs of n with a live process that no stop has signalled
C35_Untouched(pr, n) ==
  {q \in DOMAIN pr : pr[q].name = n /\ pr[q].os = "alive" /\ pr[q].spc = "none"}

C35_LosesEntry(n) ==
  /\ processes[n] \in C35_Untouched(proc, n)
  /\ processes'[n] = NoProc
  /\ Cardinality(C35_Untouched(proc', n)) = Cardinality(C35_Untouched(proc, n))

C35_CleanupOnlyOwnJob == [][\A n \in Names : ~C35_LosesEntry(n)]_vars

\* C36: in every reachable state every encoder process that is alive and
\* was not sent a termination signal is the process of the live-job table
\* entry of its stream name: no live process is orphaned, and a name has at
\* most one such process.
C36_NoOrphanedLiveProcess ==
  \A p \in Procs :
    proc[p].os = "alive" /\ ~Killed(p) => processes[proc[p].name] = p

\* C37: the validation marks a job validated and writes streaming=true with
\* its processId only while the job is still in the live-job table with a
\* live process: when the relay probe of a job returns after its process
\* exited or the job was stopped, no streaming=true is written for it.
\* the jobs of n that wait for the relay probe and are in the table, alive
C37_Sound(pr, tab, n) ==
  {q \in DOMAIN pr : /\ pr[q].name = n /\ pr[q].tpc = "probe"
                      /\ tab[n] = q /\ pr[q].os = "alive"}

\* the jobs of n that wait for the relay probe, stopped or exited meanwhile
C37_Gone(pr, tab, n) ==
  {q \in DOMAIN pr : /\ pr[q].name = n /\ pr[q].tpc = "probe"
                      /\ (tab[n] # q \/ pr[q].os # "alive")}

\* the probe of a job of n that is gone returns in this step
C37_GoneReturns(n) ==
  /\ stopAllPc' # "done"
  /\ Cardinality(C37_Gone(proc', processes', n)) < Cardinality(C37_Gone(proc, processes, n))
  /\ Cardinality(C37_Sound(proc', processes', n)) = Cardinality(C37_Sound(proc, processes, n))

C37_ValidationLooksAgain ==
  [][\A n \in Names : C37_GoneReturns(n) => ~(~cam[n].streaming /\ cam'[n].streaming)]_vars

\* C32: no tick of the periodic check runs before the startup restoration
\* has completed: the monitor is scheduled only while no restoration is in
\* progress, it is started only when the restoration has processed every
\* active camera, and the restoration runs once.
C32_Restoring ==
  mon.pc \in {"restore", "rfound", "rstart", "rresolved", "rrejected", "rthrown",
              "rcaught", "rnext", "rdelay", "rdone"}

C32_Scheduled == streamMonitor.cronJob \/ streamMonitor.initialCheck

C32_NoTickWhileRestoring == C32_Scheduled => ~C32_Restoring

C32_RestoresOnce == ~C32_Restoring => ~C32_Restoring'

\* start() is called with no camera of the restoration left to do
C32_StartedAfterAll ==
  ~streamMonitor.isRunning /\ streamMonitor'.isRunning => mon.todo = <<>>

C32_LoopAfterReconciliation ==
  /\ []C32_NoTickWhileRestoring
  /\ [][C32_RestoresOnce /\ C32_StartedAfterAll]_vars

\* C38: after StreamMonitor.stop() has returned no new pass of the periodic
\* check begins until start() is called again, the delayed initial check
\* that start() scheduled included.
\* stop() has been called on a monitor that had been started
C38_Stopped == isShuttingDown /\ ~streamMonitor.isRunning

\* checkAllStreams is entered and finds cameras to check
C38_PassBegins == mon.pc = "idle" /\ mon'.pc = "found"

C38_NoPassAfterStop == [][C38_Stopped => ~C38_PassBegins]_vars

\* C34: no operation of the supervisor or of the convergence loop changes
\* the active flag or the source URI of a registry record: a step in which
\* one of the two changes is a step of the route layer, which leaves the
\* supervisor and the loop where they were.
C34_RecordChanges ==
  \E n \in Names : cam'[n].active # cam[n].active \/ cam'[n].rtspUrl # cam[n].rtspUrl

C34_CoreStands ==
  /\ proc' = proc /\ processes' = processes /\ mon' = mon
  /\ isShuttingDown' = isShuttingDown /\ stopAllPc' = stopAllPc
  /\ streamMonitor' = streamMonitor

C34_CoreLeavesActiveAndSource == [][C34_RecordChanges => C34_CoreStands]_vars

\* the loop has saved the document of a camera that was deactivated after
\* the loop read it, and the record is still inactive
C34_Witness ==
  /\ mon.pc \in {"save", "saveR", "saveF", "rnext", "rdelay"}
  /\ mon.todo # <<>>
  /\ mon.snap[Head(mon.todo)].active
  /\ ~cam[Head(mon.todo)].active
====
